---- MODULE Spec2Model ----
(***************************************************************************)
(* Model of streamlit_app.py: the dollar-cost-averaging backtest.          *)
(*                                                                         *)
(* The script is a batch computation: preprocessing of the series, an      *)
(* outer loop over the selected percentages, a loop over every Nth start   *)
(* index, a daily loop over the 9-month window, and the average-return     *)
(* report.  One action is one loop iteration (or one loop exit).           *)
(*                                                                         *)
(* Numbers: the code computes in IEEE doubles.  The model computes in      *)
(* exact rationals <<numerator, denominator>> (denominator > 0, lowest     *)
(* terms); <<0, 0>> is NaN and propagates through every operation, as in   *)
(* numpy.  Rounding residue of the doubles is therefore not modelled.      *)
(***************************************************************************)
EXTENDS Integers, Sequences, FiniteSets, TLC

\* ---------------------------------------------------------------- bounds
MaxLen == 3
MaxStride == 4

\* ------------------------------------------------------ program constants
total_cash == 100
HorizonMonths == 9
DayCountYear == 360

\* ------------------------------------------------------------- rationals
NaN == <<0, 0>>
IsNaN(a) == a[2] = 0
Abs(n) == IF n < 0 THEN -n ELSE n

RECURSIVE GCD(_, _)
GCD(a, b) == IF b = 0 THEN a ELSE GCD(b, a % b)

Norm(n, d) ==
    IF d = 0 THEN NaN
    ELSE LET g == GCD(Abs(n), Abs(d))
             s == IF d < 0 THEN -1 ELSE 1
         IN  <<(s * n) \div g, (s * d) \div g>>

Rat(n) == <<n, 1>>
Zero == Rat(0)

RAdd(a, b) ==
    IF IsNaN(a) \/ IsNaN(b) THEN NaN
    ELSE LET g == GCD(a[2], b[2])
         IN  Norm(a[1] * (b[2] \div g) + b[1] * (a[2] \div g), (a[2] \div g) * b[2])

RNeg(a) == IF IsNaN(a) THEN NaN ELSE <<-a[1], a[2]>>
RSub(a, b) == RAdd(a, RNeg(b))

RMul(a, b) ==
    IF IsNaN(a) \/ IsNaN(b) THEN NaN
    ELSE LET g1 == GCD(Abs(a[1]), b[2])
             g2 == GCD(Abs(b[1]), a[2])
         IN  Norm((a[1] \div g1) * (b[1] \div g2), (a[2] \div g2) * (b[2] \div g1))

RDiv(a, b) ==
    IF IsNaN(a) \/ IsNaN(b) \/ b[1] = 0 THEN NaN
    ELSE RMul(a, IF b[1] < 0 THEN <<-b[2], -b[1]>> ELSE <<b[2], b[1]>>)

\* a < b as Python/numpy compare floats: any comparison with NaN is False
RLess(a, b) == ~IsNaN(a) /\ ~IsNaN(b) /\ RSub(a, b)[1] < 0
RLeq(a, b) == ~IsNaN(a) /\ ~IsNaN(b) /\ RSub(a, b)[1] <= 0

\* ----------------------------------------------------------------- dates
\* A date is <<year, month, day>>.
IsLeap(y) == (y % 4 = 0 /\ y % 100 # 0) \/ y % 400 = 0

DaysInMonth(y, m) ==
    IF m = 2 THEN (IF IsLeap(y) THEN 29 ELSE 28)
    ELSE IF m \in {4, 6, 9, 11} THEN 30 ELSE 31

\* pd.DateOffset(months=k): calendar months, day of month clamped
AddMonths(d, k) ==
    LET t  == (d[2] - 1) + k
        y  == d[1] + (t \div 12)
        m  == (t % 12) + 1
        dm == DaysInMonth(y, m)
    IN  <<y, m, IF d[3] > dm THEN dm ELSE d[3]>>

DateLE(a, b) ==
    \/ a[1] < b[1]
    \/ a[1] = b[1] /\ a[2] < b[2]
    \/ a[1] = b[1] /\ a[2] = b[2] /\ a[3] <= b[3]

\* --------------------------------------------------- return preprocessing
\* data['SPX'].pct_change(): NaN for the first row
PctChange(levels, k) ==
    IF k = 1 THEN NaN ELSE Norm(levels[k] - levels[k - 1], levels[k - 1])

\* data['LIBOR'] / 360
LiborDaily(libor) == Norm(libor, DayCountYear)

\* raw: the rows of the CSV after sort_values('Date').reset_index(drop=True)
Preprocess(raw) ==
    [k \in 1..Len(raw) |->
        [Date        |-> raw[k].Date,
         SPX         |-> raw[k].SPX,
         LIBOR       |-> raw[k].LIBOR,
         SPX_return  |-> PctChange([j \in 1..Len(raw) |-> raw[j].SPX], k),
         LIBOR_daily |-> LiborDaily(raw[k].LIBOR)]]

\* ------------------------------------------------------------ the inputs
Dates == {<<2020, 1, 31>>, <<2020, 5, 31>>, <<2020, 10, 31>>, <<2021, 3, 1>>}
Levels == {99, 100, 110}
AnnualRates == {-36, 0, 36}
PercentOptions == {0, 50, 100}
EndPercents == {0, 100}
FirstDate == <<2020, 1, 31>>

SortedDates(n) ==
    {s \in [1..n -> Dates] : \A j \in 1..(n - 1) : DateLE(s[j], s[j + 1])}

\* family A: any sorted dates, a rising index and a constant short rate
RawSeriesA ==
    UNION {{[j \in 1..n |-> [Date |-> s[j], SPX |-> 100 + 10 * j, LIBOR |-> 36]] :
               s \in SortedDates(n)} : n \in 0..MaxLen}

\* family B: one observation every four months, an index that starts at 100 and
\* then takes any levels, and any short rates
RawSeriesB ==
    UNION {{[j \in 1..n |-> [Date  |-> AddMonths(FirstDate, 4 * (j - 1)),
                             SPX   |-> IF j = 1 THEN 100 ELSE l[j],
                             LIBOR |-> r[j]]] :
               l \in [2..n -> Levels], r \in [1..n -> AnnualRates]} : n \in 1..MaxLen}

\* st.sidebar.multiselect: the selected options, in selection order, none twice
Selections(options) ==
    UNION {{s \in [1..n -> options] : \A a, b \in 1..n : a # b => s[a] # s[b]} :
              n \in 0..Cardinality(options)}

\* ------------------------------------------------------------- the state
VARIABLES
    data,                \* the preprocessed series (line 11-15)
    x_percent_list,      \* the multiselect's value
    sampling_frequency,  \* the slider's value
    results,             \* x_percent -> [returns, max_drawdowns]
    progress_counter,
    fi,                  \* position of the outer loop in x_percent_list (1-based)
    x_percent, x,
    returns, max_drawdowns,
    idx,                 \* the start index of the sampling loop (0-based)
    period_data,
    invested_cash, uninvested_cash,
    portfolio_values, max_value, drawdowns,
    num_invest_days, daily_investment,
    i,                   \* the daily loop's index (0-based row of period_data)
    libor_rate, spx_return,
    average_return,      \* x_percent -> np.mean(returns), set by the report
    moved,               \* history: the amount moved to invested_cash in this window
    reads,               \* history: the <<column, row>> cells read in this window
    pc

vars == <<data, x_percent_list, sampling_frequency, results, progress_counter, fi,
          x_percent, x, returns, max_drawdowns, idx, period_data, invested_cash,
          uninvested_cash, portfolio_values, max_value, drawdowns, num_invest_days,
          daily_investment, i, libor_rate, spx_return, average_return, moved, reads, pc>>

\* ------------------------------------------------------ the window's code
\* variant: the percentage used as it is, without the division by 100
FractionRaw(p) == Rat(p)

\* x = x_percent / 100
Fraction(p) == Norm(p, 100)

\* variant: the end date left out of the window
InWindowOpenEnd(d, start_date, end_date) ==
    DateLE(start_date, d) /\ DateLE(d, end_date) /\ d # end_date

\* (data['Date'] >= start_date) & (data['Date'] <= end_date)
InWindow(d, start_date, end_date) == DateLE(start_date, d) /\ DateLE(d, end_date)

\* period_data for the start index k (0-based)
PeriodData(dt, k) ==
    LET start_date == dt[k + 1].Date
        end_date   == AddMonths(start_date, HorizonMonths)
    IN  SelectSeq(dt, LAMBDA row : InWindow(row.Date, start_date, end_date))

\* variant: only an empty slice is skipped
TooShortEmpty(pd) == Len(pd) < 1

\* if len(period_data) < 2: continue
TooShort(pd) == Len(pd) < 2

InitInvested(f) == RMul(Rat(total_cash), f)
InitUninvested(f) == RMul(Rat(total_cash), RSub(Rat(1), f))

\* variant: the cash divided by the number of observations, not of investable days
DailyInvestmentPerRow(u, n) == IF n > 0 THEN RDiv(u, Rat(n + 1)) ELSE Zero

\* uninvested_cash / num_invest_days if num_invest_days > 0 else 0
DailyInvestment(u, n) == IF n > 0 THEN RDiv(u, Rat(n)) ELSE Zero

\* the rows the daily loop reads at step k (0-based rows of period_data)
LiborRow(k) == k - 1
\* variant: the index return read from the previous row, like the short rate
SpxRowPrev(k) == k - 1
SpxRow(k) == k

\* variant: the peak overwritten by every value
NewPeakLast(mv, tv) == tv

\* if total_value > max_value: max_value = total_value
NewPeak(mv, tv) == IF RLess(mv, tv) THEN tv ELSE mv

\* variant: the decline measured against the current value, not the peak
DrawdownOfValue(mv, tv) == RDiv(RSub(mv, tv), tv)

\* drawdown = (max_value - total_value) / max_value
Drawdown(mv, tv) == RDiv(RSub(mv, tv), mv)

\* one iteration of the daily loop, from the state st at step k
DayResult(st, pd, d, k) ==
    LET invest == RLess(Zero, st.uninvested_cash)
        inv1   == IF invest THEN RAdd(st.invested_cash, d) ELSE st.invested_cash
        un1    == IF invest THEN RSub(st.uninvested_cash, d) ELSE st.uninvested_cash
        lr     == pd[LiborRow(k) + 1].LIBOR_daily
        un2    == RAdd(un1, RMul(un1, lr))
        sr     == pd[SpxRow(k) + 1].SPX_return
        inv2   == RAdd(inv1, RMul(inv1, sr))
        tv     == RAdd(inv2, un2)
        mv     == NewPeak(st.max_value, tv)
    IN  [invested_cash   |-> inv2,
         uninvested_cash |-> un2,
         total_value     |-> tv,
         max_value       |-> mv,
         drawdown        |-> Drawdown(mv, tv),
         libor_rate      |-> lr,
         spx_return      |-> sr,
         moved           |-> IF invest THEN d ELSE Zero]

\* total_return = (portfolio_values[-1] - total_cash) / total_cash
TotalReturn(pv) == RDiv(RSub(pv[Len(pv)], Rat(total_cash)), Rat(total_cash))

\* Python's max(list): the first element, replaced by every later one that is greater
RECURSIVE MaxOf(_)
MaxOf(s) ==
    IF Len(s) = 1 THEN s[1]
    ELSE LET m == MaxOf(SubSeq(s, 1, Len(s) - 1))
         IN  IF RLess(m, s[Len(s)]) THEN s[Len(s)] ELSE m

\* variant: the newest result put first
RecordPrepend(list, v) == <<v>> \o list

\* returns.append(...), max_drawdowns.append(...)
RecordAppend(list, v) == Append(list, v)

\* variant: every start index visited, whatever the stride
NextIdxEvery(k, n) == k + 1

\* range(0, len(data), sampling_frequency)
NextIdx(k, n) == k + n

RECURSIVE Sum(_)
Sum(s) == IF s = <<>> THEN Zero ELSE RAdd(Sum(Tail(s)), Head(s))

\* variant: an empty list averaged to zero
MeanOrZero(s) == IF s = <<>> THEN Zero ELSE RDiv(Sum(s), Rat(Len(s)))

\* np.mean: NaN for an empty list
Mean(s) == IF s = <<>> THEN NaN ELSE RDiv(Sum(s), Rat(Len(s)))

\* ------------------------------------------------------------------ Init
Configured(raw, sel, n) ==
    /\ data = Preprocess(raw)
    /\ x_percent_list = sel
    /\ sampling_frequency = n

Init ==
    /\ \/ \E raw \in RawSeriesA, sel \in Selections(EndPercents), n \in 1..MaxStride :
              Configured(raw, sel, n)
       \/ \E raw \in RawSeriesB, p \in PercentOptions : Configured(raw, <<p>>, 1)
    /\ results = <<>>
    /\ progress_counter = 0
    /\ fi = 1
    /\ x_percent = 0
    /\ x = Zero
    /\ returns = <<>>
    /\ max_drawdowns = <<>>
    /\ idx = 0
    /\ period_data = <<>>
    /\ invested_cash = Zero
    /\ uninvested_cash = Zero
    /\ portfolio_values = <<>>
    /\ max_value = Zero
    /\ drawdowns = <<>>
    /\ num_invest_days = 0
    /\ daily_investment = Zero
    /\ i = 0
    /\ libor_rate = Zero
    /\ spx_return = Zero
    /\ average_return = <<>>
    /\ moved = Zero
    /\ reads = {}
    /\ pc = "fraction"

windowVars == <<period_data, invested_cash, uninvested_cash, portfolio_values, max_value,
                drawdowns, num_invest_days, daily_investment, i, libor_rate, spx_return,
                moved, reads>>
inputVars == <<data, x_percent_list, sampling_frequency>>

\* --------------------------------------------------------------- actions
\* for x_percent in x_percent_list: ... returns = []; max_drawdowns = []
NextFraction ==
    /\ pc = "fraction"
    /\ fi <= Len(x_percent_list)
    /\ x_percent' = x_percent_list[fi]
    /\ x' = Fraction(x_percent_list[fi])
    /\ returns' = <<>>
    /\ max_drawdowns' = <<>>
    /\ idx' = 0
    /\ pc' = "start"
    /\ UNCHANGED <<inputVars, results, progress_counter, fi, average_return, windowVars>>

\* a sampled start index whose window has fewer than 2 observations: continue
SkipWindow ==
    /\ pc = "start"
    /\ idx < Len(data)
    /\ TooShort(PeriodData(data, idx))
    /\ period_data' = PeriodData(data, idx)
    /\ idx' = NextIdx(idx, sampling_frequency)
    /\ UNCHANGED <<inputVars, results, progress_counter, fi, x_percent, x, returns,
                   max_drawdowns, average_return, invested_cash, uninvested_cash,
                   portfolio_values, max_value, drawdowns, num_invest_days,
                   daily_investment, i, libor_rate, spx_return, moved, reads, pc>>

\* a sampled start index with a valid window: initialise the portfolio
BeginWindow ==
    /\ pc = "start"
    /\ idx < Len(data)
    /\ ~TooShort(PeriodData(data, idx))
    /\ period_data' = PeriodData(data, idx)
    /\ invested_cash' = InitInvested(x)
    /\ uninvested_cash' = InitUninvested(x)
    /\ portfolio_values' = <<Rat(total_cash)>>
    /\ max_value' = Rat(total_cash)
    /\ drawdowns' = <<Zero>>
    /\ num_invest_days' = Len(PeriodData(data, idx)) - 1
    /\ daily_investment' = DailyInvestment(InitUninvested(x), Len(PeriodData(data, idx)) - 1)
    /\ i' = 1
    /\ moved' = Zero
    /\ reads' = {}
    /\ pc' = "day"
    /\ UNCHANGED <<inputVars, results, progress_counter, fi, x_percent, x, returns,
                   max_drawdowns, idx, libor_rate, spx_return, average_return>>

\* one iteration of: for i in range(1, len(period_data))
DayStep ==
    /\ pc = "day"
    /\ i < Len(period_data)
    /\ LET r == DayResult([invested_cash |-> invested_cash,
                           uninvested_cash |-> uninvested_cash,
                           max_value |-> max_value],
                          period_data, daily_investment, i)
       IN  /\ invested_cash' = r.invested_cash
           /\ uninvested_cash' = r.uninvested_cash
           /\ libor_rate' = r.libor_rate
           /\ spx_return' = r.spx_return
           /\ portfolio_values' = Append(portfolio_values, r.total_value)
           /\ max_value' = r.max_value
           /\ drawdowns' = Append(drawdowns, r.drawdown)
           /\ moved' = RAdd(moved, r.moved)
    /\ reads' = reads \cup {<<"LIBOR_daily", LiborRow(i)>>, <<"SPX_return", SpxRow(i)>>}
    /\ i' = i + 1
    /\ UNCHANGED <<inputVars, results, progress_counter, fi, x_percent, x, returns,
                   max_drawdowns, idx, period_data, num_invest_days, daily_investment,
                   average_return, pc>>

\* the daily loop is over: record the return and the maximum drawdown
RecordWindow ==
    /\ pc = "day"
    /\ i >= Len(period_data)
    /\ returns' = RecordAppend(returns, TotalReturn(portfolio_values))
    /\ max_drawdowns' = RecordAppend(max_drawdowns, MaxOf(drawdowns))
    /\ idx' = NextIdx(idx, sampling_frequency)
    /\ pc' = "start"
    /\ UNCHANGED <<inputVars, results, progress_counter, fi, x_percent, x,
                   average_return, windowVars>>

\* the sampling loop is over: results[x_percent] = {...}; progress_counter += 1
StoreResults ==
    /\ pc = "start"
    /\ idx >= Len(data)
    /\ results' = [p \in DOMAIN results \cup {x_percent} |->
                      IF p = x_percent
                      THEN [returns |-> returns, max_drawdowns |-> max_drawdowns]
                      ELSE results[p]]
    /\ progress_counter' = progress_counter + 1
    /\ fi' = fi + 1
    /\ pc' = "fraction"
    /\ UNCHANGED <<inputVars, x_percent, x, returns, max_drawdowns, idx,
                   average_return, windowVars>>

\* for x_percent in sorted(results.keys()): average_return = np.mean(...)
Report ==
    /\ pc = "fraction"
    /\ fi > Len(x_percent_list)
    /\ average_return' = [p \in DOMAIN results |-> Mean(results[p].returns)]
    /\ pc' = "done"
    /\ UNCHANGED <<inputVars, results, progress_counter, fi, x_percent, x, returns,
                   max_drawdowns, idx, windowVars>>

Next ==
    \/ NextFraction
    \/ SkipWindow
    \/ BeginWindow
    \/ DayStep
    \/ RecordWindow
    \/ StoreResults
    \/ Report

Spec == Init /\ [][Next]_vars

\* ------------------------------------------ the window as a pure function
\* lines 62-84 run from step k to the end of the window; st carries the lists
RECURSIVE RunDays(_, _, _, _)
RunDays(st, pd, d, k) ==
    IF k >= Len(pd) THEN st
    ELSE LET r == DayResult(st, pd, d, k)
         IN  RunDays([invested_cash    |-> r.invested_cash,
                      uninvested_cash  |-> r.uninvested_cash,
                      max_value        |-> r.max_value,
                      portfolio_values |-> Append(st.portfolio_values, r.total_value),
                      drawdowns        |-> Append(st.drawdowns, r.drawdown)],
                     pd, d, k + 1)

\* lines 52-89 for one valid window pd and one fraction f
SimulateWindow(pd, f) ==
    LET fin == RunDays([invested_cash    |-> InitInvested(f),
                        uninvested_cash  |-> InitUninvested(f),
                        max_value        |-> Rat(total_cash),
                        portfolio_values |-> <<Rat(total_cash)>>,
                        drawdowns        |-> <<Zero>>],
                       pd, DailyInvestment(InitUninvested(f), Len(pd) - 1), 1)
    IN  [total_return |-> TotalReturn(fin.portfolio_values),
         max_drawdown |-> MaxOf(fin.drawdowns)]

\* ================================================================ claims
\* the number of observations dated within [date of row k, that date + 9 months]
InHorizonCount(k) ==
    Cardinality({j \in 1..Len(data) :
        /\ DateLE(data[k + 1].Date, data[j].Date)
        /\ DateLE(data[j].Date, AddMonths(data[k + 1].Date, HorizonMonths))})

\* the sampled start indices 0, N, 2N, ... below len(data)
SampledStarts == {k \in 0..(Len(data) - 1) : k % sampling_frequency = 0}

\* the sampled start indices below limit whose window holds at least 2 observations
ValidStarts(limit) == {k \in SampledStarts : k < limit /\ InHorizonCount(k) >= 2}

Stored == DOMAIN results

\* C1: for every fraction and stride, the returns list and the max_drawdowns list
\* hold exactly one entry per sampled start index whose 9-month slice has at least
\* 2 observations: while the sampling loop runs they count the valid starts passed
\* so far (a skipped start adds nothing), and the stored collections count all of them.
C1_ResultLength ==
    /\ Len(returns) = Len(max_drawdowns)
    /\ pc \in {"start", "day"} => Len(returns) = Cardinality(ValidStarts(idx))
    /\ \A p \in Stored :
          /\ Len(results[p].returns) = Cardinality(ValidStarts(Len(data)))
          /\ Len(results[p].max_drawdowns) = Cardinality(ValidStarts(Len(data)))

C1_Witness ==
    /\ pc = "done"
    /\ \E p \in Stored :
          /\ Len(results[p].returns) >= 1
          /\ Len(results[p].returns) < Cardinality(SampledStarts)

\* the results of the valid sampled windows from start index k on, below limit,
\* in ascending order of start index
RECURSIVE ExpectedFrom(_, _, _)
ExpectedFrom(k, limit, f) ==
    IF k >= limit \/ k >= Len(data) THEN <<>>
    ELSE (IF InHorizonCount(k) >= 2
          THEN <<SimulateWindow(PeriodData(data, k), f)>>
          ELSE <<>>) \o ExpectedFrom(k + sampling_frequency, limit, f)

ReturnsOf(rs) == [k \in 1..Len(rs) |-> rs[k].total_return]
DrawdownsOf(rs) == [k \in 1..Len(rs) |-> rs[k].max_drawdown]

\* C2: the result collections are a function of the inputs alone, in ascending order
\* of start date: the k-th entry of a fraction's collection is the result of the
\* k-th valid sampled window, during the sampling loop and in what is stored.
C2_OrderStable ==
    /\ pc = "start" =>
          /\ returns = ReturnsOf(ExpectedFrom(0, idx, x))
          /\ max_drawdowns = DrawdownsOf(ExpectedFrom(0, idx, x))
    /\ \A p \in Stored :
          /\ results[p].returns = ReturnsOf(ExpectedFrom(0, Len(data), Norm(p, 100)))
          /\ results[p].max_drawdowns = DrawdownsOf(ExpectedFrom(0, Len(data), Norm(p, 100)))

C2_Witness ==
    /\ pc = "done"
    /\ \E p \in Stored :
          /\ Len(results[p].returns) >= 2
          /\ results[p].returns[1] # results[p].returns[2]

\* the concrete scenario: index levels [100, 110, 99], short rate 0, fraction 0.5,
\* and the window that starts at the first observation and holds all three
Scenario ==
    /\ Len(data) = 3
    /\ [k \in 1..3 |-> data[k].SPX] = <<100, 110, 99>>
    /\ \A k \in 1..3 : data[k].LIBOR = 0
    /\ x_percent_list = <<50>>

ScenarioWindow == Scenario /\ pc = "day" /\ idx = 0 /\ Len(period_data) = 3

\* C3: in the scenario the simulation starts with invested 50, uninvested 50 and a
\* daily investment of 25; after step 1 invested is 82.5 and uninvested 25; after
\* step 2 invested is 96.75 and uninvested 0; the value trajectory is
\* [100, 107.5, 96.75], total_return is -0.0325 and max_drawdown is 0.1.
C3_ReferenceTrace ==
    /\ ScenarioWindow =>
          /\ daily_investment = Rat(25)
          /\ i = 1 => /\ invested_cash = Rat(50)
                      /\ uninvested_cash = Rat(50)
                      /\ portfolio_values = <<Rat(100)>>
          /\ i = 2 => /\ invested_cash = <<165, 2>>
                      /\ uninvested_cash = Rat(25)
                      /\ portfolio_values = <<Rat(100), <<215, 2>>>>
          /\ i = 3 => /\ invested_cash = <<387, 4>>
                      /\ uninvested_cash = Zero
                      /\ portfolio_values = <<Rat(100), <<215, 2>>, <<387, 4>>>>
                      /\ drawdowns = <<Zero, Zero, <<1, 10>>>>
    /\ (Scenario /\ 50 \in Stored) =>
          /\ results[50].returns[1] = <<-13, 400>>
          /\ results[50].max_drawdowns[1] = <<1, 10>>

C3_Witness == Scenario /\ pc = "done" /\ 50 \in Stored /\ Len(results[50].returns) >= 1

\* 100 compounded by the index returns of the window's rows 1..k
RECURSIVE Compounded(_, _)
Compounded(pd, k) ==
    IF k = 0 THEN Rat(100)
    ELSE RMul(Compounded(pd, k - 1), RAdd(Rat(1), pd[k + 1].SPX_return))

\* C4: with fraction 1, in every valid window uninvested_cash is 0 at every step,
\* nothing is moved from uninvested to invested (daily_investment is 0), and the
\* value recorded at step k is 100 times the product of (1 + index_return[j]),
\* j = 1..k, whatever the short rates.
C4_FullyInvested ==
    (pc = "day" /\ x_percent = 100) =>
        /\ uninvested_cash = Zero
        /\ daily_investment = Zero
        /\ moved = Zero
        /\ Len(portfolio_values) = i
        /\ \A k \in 1..Len(portfolio_values) :
              portfolio_values[k] = Compounded(period_data, k - 1)

C4_Witness ==
    /\ pc = "day"
    /\ x_percent = 100
    /\ i = 3
    /\ i = Len(period_data)
    /\ \E k \in 1..2 : period_data[k].LIBOR # 0
    /\ portfolio_values[2] # Rat(100)
    /\ portfolio_values[3] # portfolio_values[2]

\* C5 (state part): the drawdown of step 0 is 0, no recorded drawdown is negative,
\* the running peak is never below the initial value 100, and no window's
\* max_drawdown is negative.
C5_State ==
    /\ pc = "day" =>
          /\ drawdowns[1] = Zero
          /\ \A k \in 1..Len(drawdowns) : RLeq(Zero, drawdowns[k])
          /\ RLeq(Rat(100), max_value)
    /\ \A k \in 1..Len(max_drawdowns) : RLeq(Zero, max_drawdowns[k])
    /\ \A p \in Stored : \A k \in 1..Len(results[p].max_drawdowns) :
          RLeq(Zero, results[p].max_drawdowns[k])

\* C5 (step part): a window starts with the peak at 100, and no step lowers it.
C5_Step ==
    /\ (pc = "start" /\ pc' = "day") => max_value' = Rat(100)
    /\ (pc = "day" /\ pc' = "day") => RLeq(max_value, max_value')

\* C5: in every simulated window the running peak max_value starts at 100 and is
\* non-decreasing from step to step, the drawdown of step 0 is 0, every recorded
\* drawdown is >= 0, and so is the window's max_drawdown.
C5_PeakAndDrawdown == [](C5_State) /\ [][C5_Step]_vars

C5_Witness ==
    /\ pc = "day"
    /\ i = 3
    /\ RLess(Rat(100), max_value)
    /\ RLess(Zero, drawdowns[3])

\* C6: when the stride equals the length of the series only the first observation
\* is sampled as a start, so if its window holds at least 2 observations every
\* selected fraction ends with exactly one result.
C6_OneWindow ==
    (sampling_frequency = Len(data) /\ InHorizonCount(0) >= 2) =>
        /\ pc = "day" => idx = 0
        /\ \A p \in Stored :
              /\ Len(results[p].returns) = 1
              /\ Len(results[p].max_drawdowns) = 1
        /\ pc = "done" => Stored = {x_percent_list[k] : k \in 1..Len(x_percent_list)}

C6_Witness ==
    /\ sampling_frequency = Len(data)
    /\ Len(data) = 3
    /\ x_percent_list = <<0, 100>>
    /\ pc = "done"
    /\ Len(results[0].returns) = 1
    /\ Len(results[100].returns) = 1

Selected == {x_percent_list[k] : k \in 1..Len(x_percent_list)}

\* C7 as stated: with a stride larger than the series length all windows are
\* skipped and every fraction ends with an empty result collection.
C7_AsStated ==
    sampling_frequency > Len(data) =>
        \A p \in Stored : results[p].returns = <<>> /\ results[p].max_drawdowns = <<>>

\* C7, amended: with a stride larger than the series length only start index 0 is
\* sampled; a fraction's collection then holds one result if the first window has
\* at least 2 observations and is empty only if it has fewer; and the average
\* return of a fraction is NaN exactly when its collection is empty.
C7_StrideBeyondSeries ==
    /\ sampling_frequency > Len(data) =>
          /\ pc = "day" => idx = 0
          /\ \A p \in Stored :
                LET n == IF Len(data) >= 1 /\ InHorizonCount(0) >= 2 THEN 1 ELSE 0
                IN  /\ Len(results[p].returns) = n
                    /\ Len(results[p].max_drawdowns) = n
    /\ \A p \in DOMAIN average_return :
          IsNaN(average_return[p]) <=> results[p].returns = <<>>

C7_Witness ==
    /\ sampling_frequency > Len(data)
    /\ pc = "done"
    /\ \E p \in Stored : Len(results[p].returns) = 1 /\ ~IsNaN(average_return[p])

\* C8 as stated: a series with fewer than 2 observations makes the program fail
\* before any simulation, so it never finishes and produces no result collection
\* and no summary.
C8_AsStated ==
    Len(data) < 2 => pc # "done" /\ Stored = {} /\ DOMAIN average_return = {}

\* C8, amended: with a series of fewer than 2 observations the program raises no
\* error; no window is ever simulated, every selected fraction ends with an empty
\* result collection, and its average return is reported as NaN.
C8_ShortSeries ==
    Len(data) < 2 =>
        /\ pc # "day"
        /\ portfolio_values = <<>>
        /\ \A p \in Stored : results[p].returns = <<>> /\ results[p].max_drawdowns = <<>>
        /\ \A p \in DOMAIN average_return : IsNaN(average_return[p])
        /\ pc = "done" => Stored = Selected /\ DOMAIN average_return = Selected

C8_Witness ==
    /\ Len(data) = 1
    /\ pc = "done"
    /\ x_percent_list = <<0, 100>>
    /\ DOMAIN average_return = {0, 100}

\* the schedule of the current window: something was moved at each of the i - 1
\* steps done, the cash never went negative, and at the end of the window the
\* amounts moved add up to the initial uninvested balance 100 * (1 - fraction)
ScheduleHolds ==
    /\ ~RLess(uninvested_cash, Zero)
    /\ moved = RMul(Rat(i - 1), daily_investment)
    /\ i = Len(period_data) => moved = Rat(100 - x_percent)

RatesNonNegative == \A k \in 1..(Len(period_data) - 1) : period_data[k].LIBOR >= 0

AllowedReads ==
    ({"SPX_return"} \X (1..(Len(period_data) - 1)))
        \cup ({"LIBOR_daily"} \X (0..(Len(period_data) - 2)))

\* C10: each window reads index_return only at its rows 1..len-1 and the daily
\* short rate only at its rows 0..len-2, never the undefined index return of the
\* first observation of the series; so every value read, every recorded total
\* value, total_return and max_drawdown is a defined number, for every stride,
\* fraction and start index.
C10_DefinedInputs ==
    /\ pc = "day" =>
          /\ reads \subseteq AllowedReads
          /\ \A c \in reads :
                c[1] = "SPX_return" => ~IsNaN(period_data[c[2] + 1].SPX_return)
          /\ i = Len(period_data) => reads = AllowedReads
          /\ i > 1 => ~IsNaN(spx_return) /\ ~IsNaN(libor_rate)
          /\ \A k \in 1..Len(portfolio_values) : ~IsNaN(portfolio_values[k])
          /\ \A k \in 1..Len(drawdowns) : ~IsNaN(drawdowns[k])
    /\ \A k \in 1..Len(returns) : ~IsNaN(returns[k]) /\ ~IsNaN(max_drawdowns[k])
    /\ \A p \in Stored : \A k \in 1..Len(results[p].returns) :
          ~IsNaN(results[p].returns[k]) /\ ~IsNaN(results[p].max_drawdowns[k])

C10_Witness ==
    /\ pc = "day"
    /\ idx = 0
    /\ Len(period_data) = 3
    /\ i = 3
    /\ IsNaN(period_data[1].SPX_return)

====
